---- MODULE Spec2Model ----
(***************************************************************************)
(* State-machine model of marft/algorithms/tppo_trainer.py (TPPOTrainer):  *)
(* the optimizer registry, ppo_update (chunked critic update, warmup gate, *)
(* chunked policy update, KL gate, policy optimizer steps), the epoch      *)
(* driver train, and save_optimizers / load_optimizers.                    *)
(*                                                                         *)
(* Numbers the code computes in floating point are modelled as exact       *)
(* rationals <<n, d>> in lowest terms, d > 0; <<0, 0>> is NaN (0/0).       *)
(* Rounding is not modelled.  approx-KL values are counted in units of     *)
(* 1e-7, so the threshold 1.7e-6 of line 168 is 17.                        *)
(***************************************************************************)
EXTENDS Integers, Sequences, FiniteSets, TLC

\* ------------------------------------------------------------ bounds
MaxRows == 2          \* largest batch whose rows are drawn freely
MaxBatch == 5         \* largest batch_size (uniform rows above MaxRows)
MaxCpSteps == 3       \* gradient_cp_steps ranges over -1 .. MaxCpSteps
MaxGlobalSteps == 3   \* global_steps ranges over 0 .. MaxGlobalSteps
MaxEpoch == 2         \* ppo_epoch ranges over 0 .. MaxEpoch
MaxMiniBatch == 2     \* one buffer.sample() yields 0 .. MaxMiniBatch minibatches
MaxAdvLen == 3        \* an advantages array has 1 .. MaxAdvLen entries

\* ------------------------------------------------- program constants
KLThreshold == 17     \* 1.7e-6 in units of 1e-7 (line 168)
PadTokenId == 0       \* mas.tokenizer.pad_token_id (line 49)
ValueLossCoef == 2    \* args.value_loss_coef (line 23)
MaxGradNorm == 2      \* args.max_grad_norm (line 24)
EpsPerUnit == 100000000  \* the 1e-8 of line 99 is 1 / EpsPerUnit

\* Python's None for agent_to_train
None == 0 - 1

\* ------------------------------------------------- exact arithmetic
RECURSIVE GCD(_, _)
GCD(a, b) == IF b = 0 THEN a ELSE GCD(b, a % b)

Abs(x) == IF x < 0 THEN 0 - x ELSE x

NaN == <<0, 0>>
Zero == <<0, 1>>
IsNaN(r) == r[2] = 0

\* n/d in lowest terms with a positive denominator; the only division by
\* zero the code performs is 0/0, which IEEE arithmetic defines as NaN
Frac(n, d) ==
    IF d = 0 THEN NaN
    ELSE LET g == GCD(Abs(n), Abs(d))
             s == IF d < 0 THEN 0 - 1 ELSE 1
         IN <<(s * n) \div g, (s * d) \div g>>

Whole(n) == <<n, 1>>

RAdd(x, y) ==
    IF IsNaN(x) \/ IsNaN(y) THEN NaN
    ELSE Frac(x[1] * y[2] + y[1] * x[2], x[2] * y[2])

\* the common factors are taken out before multiplying
RMul(x, y) ==
    IF IsNaN(x) \/ IsNaN(y) THEN NaN
    ELSE LET g1 == GCD(Abs(x[1]), y[2])
             g2 == GCD(Abs(y[1]), x[2])
         IN Frac((x[1] \div g1) * (y[1] \div g2), (x[2] \div g2) * (y[2] \div g1))

RAbs(x) == <<Abs(x[1]), x[2]>>

RSub(x, y) == RAdd(x, <<0 - y[1], y[2]>>)

\* x / y for y # 0, the common factors taken out before multiplying
RQuot(x, y) ==
    IF IsNaN(x) \/ IsNaN(y) THEN NaN
    ELSE LET g1 == GCD(Abs(x[1]), Abs(y[1]))
             g2 == GCD(x[2], y[2])
         IN Frac((x[1] \div g1) * (y[2] \div g2), (x[2] \div g2) * (y[1] \div g1))

\* the square root of a natural number that is a perfect square
IsSquare(n) == \E r \in 0 .. n : r * r = n
ISqrt(n) == CHOOSE r \in 0 .. n : r * r = n

\* the square root of a rational >= 0 whose root is rational; sqrt(NaN) is NaN
RSqrt(x) == IF IsNaN(x) THEN NaN ELSE <<ISqrt(x[1]), ISqrt(x[2])>>

\* x > y as IEEE comparison: false whenever an operand is NaN
RGt(x, y) ==
    /\ ~IsNaN(x)
    /\ ~IsNaN(y)
    /\ x[1] * y[2] > y[1] * x[2]

\* Python's a // b on ints (floor division), b # 0
PyFloorDiv(a, b) == IF b > 0 THEN a \div b ELSE (0 - a) \div (0 - b)

\* sum of a function's values over its (finite) domain
RECURSIVE SumFn(_)
SumFn(f) ==
    IF DOMAIN f = {} THEN 0
    ELSE LET x == CHOOSE y \in DOMAIN f : TRUE
         IN f[x] + SumFn([y \in DOMAIN f \ {x} |-> f[y]])

\* ------------------------------------------------------ input domain
\* One (sample, agent) position of a minibatch: the action token, and what
\* the forward / backward passes and the element-wise part of the loss
\* functions (lines 55-61, 71-80) produce there: the value loss and its
\* derivative in the critic's parameter, the policy surrogate loss and its
\* derivative in the agent's parameter, approx_kl and the entropy. Each
\* network is taken to have one scalar parameter. A padded position holds
\* values too: only the token mask keeps them out of the reductions.
PadCell ==
    [tok |-> PadTokenId, vloss |-> 5, vgrad |-> 5, surr |-> 5, pgrad |-> 5,
     kl |-> 100, ent |-> 5]
LowCell ==
    [tok |-> PadTokenId + 1, vloss |-> 1, vgrad |-> 1, surr |-> 1, pgrad |-> 5,
     kl |-> 0, ent |-> 3]
HighCell ==
    [tok |-> PadTokenId + 2, vloss |-> 3, vgrad |-> 4, surr |-> 2, pgrad |-> 6,
     kl |-> 60, ent |-> 1]
Cells == {PadCell, LowCell, HighCell}

\* the rows of a minibatch for n agents: one token in every agent's position,
\* or agent 0's position differing from the others'
Rows(n) ==
    {[a \in 0 .. n - 1 |-> c] : c \in Cells}
    \cup {[a \in 0 .. n - 1 |-> IF a = 0 THEN LowCell ELSE PadCell],
          [a \in 0 .. n - 1 |-> IF a = 0 THEN PadCell ELSE HighCell]}

PlainRow(n) == [a \in 0 .. n - 1 |-> LowCell]

\* minibatches for n agents: every batch of up to MaxRows rows, and the
\* uniform batches of up to MaxBatch rows
Batches(n) ==
    UNION {[0 .. b - 1 -> Rows(n)] : b \in 1 .. MaxRows}
    \cup {[i \in 0 .. b - 1 |-> PlainRow(n)] : b \in 1 .. MaxBatch}

\* the minibatches a TokenBuffer holds in the runs of train: one row each,
\* the same token in every agent's position
BufferBatches(n) == {[i \in {0} |-> [a \in 0 .. n - 1 |-> c]] : c \in Cells}

\* what one buffer.sample(num_mini_batch) yields, pass after pass
Buffers(n) ==
    UNION {[1 .. k -> BufferBatches(n)] : k \in 0 .. MaxMiniBatch}

BatchSize(sample) == Cardinality(DOMAIN sample)

\* advantages arrays (flattened): small whole values, 0.0 among them. Kept
\* are the arrays whose standard deviation over the non-zero entries is
\* rational, so that line 98 is computed exactly.
AdvantageValues == (0 - 2) .. 2
HasRationalStd(advantages) ==
    LET nz == {i \in DOMAIN advantages : advantages[i] # 0}
        k == Cardinality(nz)
        s == SumFn([i \in nz |-> advantages[i]])
        ss == SumFn([i \in nz |-> advantages[i] * advantages[i]])
    IN IsSquare(k * ss - s * s)
AdvantageArrays ==
    {a \in UNION {[1 .. n -> AdvantageValues] : n \in 1 .. MaxAdvLen} :
        HasRationalStd(a)}

\* action_tokens arrays of up to MaxRows samples for two agents, one token each
ActionTokenArrays ==
    UNION {[(0 .. b - 1) \X (0 .. 1) -> PadTokenId .. PadTokenId + 2] :
              b \in 1 .. MaxRows}

\* ------------------------------------------------ pure parts of the code
\* cal_token_mask with the comparison turned round: 1 on the pad token
cal_token_mask_pad(tok) == IF tok = PadTokenId THEN 1 ELSE 0

\* cal_token_mask, for one position: 1 where the token is not the pad token
cal_token_mask(tok) == IF tok # PadTokenId THEN 1 ELSE 0

\* cal_token_mask on an array, lines 49-51: (action_tokens != pad_token).int()
TokenMask(action_tokens) ==
    [p \in DOMAIN action_tokens |-> cal_token_mask(action_tokens[p])]

\* lines 95-96: the entries that are not replaced by nan
NonZero(advantages) == {i \in DOMAIN advantages : advantages[i] # 0}

\* line 97 as np.mean: the zero entries counted too
mean_advantages_all(advantages) ==
    Frac(SumFn([i \in DOMAIN advantages |-> advantages[i]]),
         Cardinality(DOMAIN advantages))

\* line 97, np.nanmean over all entries that are not nan; over none it is
\* nan (0/0, with a RuntimeWarning, no exception)
mean_advantages(advantages) ==
    LET nz == NonZero(advantages)
    IN Frac(SumFn([i \in nz |-> advantages[i]]), Cardinality(nz))

\* line 98, np.nanstd: the population standard deviation of those entries
std_advantages(advantages) ==
    LET nz == NonZero(advantages)
        k == Cardinality(nz)
        s == SumFn([i \in nz |-> advantages[i]])
        ss == SumFn([i \in nz |-> advantages[i] * advantages[i]])
    IN RSqrt(Frac(k * ss - s * s, k * k))

\* line 99
NormalizedAdvantages(advantages) ==
    LET mean == mean_advantages(advantages)
        std == std_advantages(advantages)
    IN [i \in DOMAIN advantages |->
           RQuot(RSub(Whole(advantages[i]), mean), RAdd(std, <<1, EpsPerUnit>>))]

\* the positions of the slice [start:end] of the rows (a Python slice stops
\* at the last row), restricted to a set of agents
Positions(sample, start, end, agents) ==
    ((start .. end - 1) \cap DOMAIN sample) \X agents

\* (tensor * token_mask).sum() for one of the per-token tensors
MaskedSum(sample, P, field) ==
    SumFn([p \in P |-> sample[p[1]][p[2]][field] * cal_token_mask(sample[p[1]][p[2]].tok)])

\* token_mask.sum()
MaskCount(sample, P) ==
    SumFn([p \in P |-> cal_token_mask(sample[p[1]][p[2]].tok)])

\* (tensor * token_mask).sum() / token_mask.sum(): 0/0 = NaN on an empty mask
MaskedMean(sample, P, field) ==
    Frac(MaskedSum(sample, P, field), MaskCount(sample, P))

\* cal_value_loss on the positions P (its reduction, lines 81-83)
cal_value_loss(sample, P) ==
    RMul(MaskedMean(sample, P, "vloss"), Whole(ValueLossCoef))

\* the derivative of cal_value_loss on the positions P
cal_value_loss_grad(sample, P) ==
    RMul(MaskedMean(sample, P, "vgrad"), Whole(ValueLossCoef))

\* cal_policy_loss on the positions P (its reductions, lines 63-67)
cal_policy_loss(sample, P) ==
    [policy_loss |-> MaskedMean(sample, P, "surr"),
     approx_kl |-> MaskedMean(sample, P, "kl"),
     entropy |-> MaskedMean(sample, P, "ent")]

\* the derivative of cal_policy_loss's policy_loss on the positions P in the
\* parameter of the agent whose positions are Pa
cal_policy_loss_grad(sample, P, Pa) ==
    Frac(MaskedSum(sample, Pa, "pgrad"), MaskCount(sample, P))

\* lines 87-90 without the offset of one
AgentToTrainNoOffset(global_steps, interval, num_agent) ==
    IF interval > 0
    THEN PyFloorDiv(global_steps, interval) % num_agent
    ELSE None

\* lines 87-90
AgentToTrain(global_steps, interval, num_agent) ==
    IF interval > 0
    THEN (PyFloorDiv(global_steps, interval) + 1) % num_agent
    ELSE None

\* line 106 without the floor of lines 107-109
CpBatchSizeUnfloored(batch_size, gradient_cp_steps) ==
    PyFloorDiv(batch_size, gradient_cp_steps)

\* lines 106-109 (gradient_cp_steps # 0)
CpBatchSize(batch_size, gradient_cp_steps) ==
    LET q == PyFloorDiv(batch_size, gradient_cp_steps)
    IN IF q = 0 THEN 1 ELSE q

\* whether range(0, stop, step) still yields the value start
RangeHas(start, stop, step) ==
    IF step > 0 THEN start < stop ELSE start > stop

\* lines 116-118 and 146-148 without the truncation at batch_size
ChunkEndOpen(start, cp_batch_size, batch_size) == start + cp_batch_size

\* lines 116-118 and 146-148
ChunkEnd(start, cp_batch_size, batch_size) ==
    IF start + cp_batch_size > batch_size THEN batch_size ELSE start + cp_batch_size

\* lines 119 and 149
CpWeight(start, end, batch_size) == Frac(end - start, batch_size)

\* ------------------------------------------------------------- state
VARIABLES
    cfg,               \* args and the MAS shape (fixed at construction)
    policy_optimizer,  \* self.policy_optimizer: role -> optimizer state
    critic_optimizer,  \* self.critic_optimizer: optimizer state
    critic_grad,       \* .grad of the critic's parameter
    policy_grad,       \* .grad of each agent's parameter
    ckpt,              \* the optimizers.pt file of save / load_optimizers
    io,                \* outcome of the last save_optimizers / load_optimizers
    pc,                \* where the running call stands
    upd,               \* the locals of the running / last ppo_update
    ret,               \* what the last ppo_update returned or raised
    tr,                \* the locals and the result of the running / last train
    saved,             \* history: the optimizer states when save_optimizers ran
    fn                 \* a call of one of the pure steps: its input and its result

vars == <<cfg, policy_optimizer, critic_optimizer, critic_grad, policy_grad,
          ckpt, io, pc, upd, ret, tr, saved, fn>>

Agents == 0 .. cfg.num_agent - 1

\* agent.role for the agents of a MAS of n agents: all distinct, or all equal
RoleMaps(n) == {[a \in 0 .. n - 1 |-> a], [a \in 0 .. n - 1 |-> 0]}

\* the configurations of the runs of one ppo_update
UpdateConfigs ==
    UNION {[num_agent : {n},
            role : RoleMaps(n),
            warmup_steps : {1},
            agent_iteration_interval : {0 - 1, 0, 1, 2},
            gradient_cp_steps : (0 - 1) .. MaxCpSteps,
            use_max_grad_norm : BOOLEAN,
            ppo_epoch : {1}] : n \in {1, 2}}

\* the configurations of the runs of train, save_optimizers, load_optimizers
TrainerConfigs ==
    [num_agent : {2},
     role : RoleMaps(2),
     warmup_steps : {1},
     agent_iteration_interval : {0, 1},
     gradient_cp_steps : {0, 1},
     use_max_grad_norm : {TRUE},
     ppo_epoch : 0 .. MaxEpoch]

\* a parameter's .grad: None, or the accumulated derivative (NaN included);
\* clipped records that clip_grad_norm_ went over it
NoGrad == [set |-> FALSE, val |-> Zero, clipped |-> FALSE]

\* a torch optimizer's state_dict: the step count and the moment buffers
\* (empty before the first step, NaN for ever once a NaN gradient went in)
FreshOpt == [step |-> 0, buf |-> "empty"]

\* loss.backward(): the derivative is added to .grad
Backward(grad, d) == [set |-> TRUE, val |-> RAdd(grad.val, d), clipped |-> FALSE]

\* optimizer.step(): a parameter whose .grad is None is skipped
OptStep(opt, grad) ==
    IF ~grad.set THEN opt
    ELSE [step |-> opt.step + 1,
          buf |-> IF IsNaN(grad.val) \/ opt.buf = "nan" THEN "nan" ELSE "finite"]

\* the total norm clip_grad_norm_ and get_gard_norm measure
NormOf(grad) == IF ~grad.set THEN Zero ELSE RAbs(grad.val)

\* nn.utils.clip_grad_norm_(parameters, max_grad_norm): a gradient whose norm
\* exceeds max_grad_norm is scaled down to it, in place
Clip(grad) ==
    IF ~grad.set THEN grad
    ELSE [set |-> TRUE,
          val |-> IF RGt(RAbs(grad.val), Whole(MaxGradNorm))
                  THEN Whole(IF grad.val[1] < 0 THEN 0 - MaxGradNorm ELSE MaxGradNorm)
                  ELSE grad.val,
          clipped |-> TRUE]

\* the agent whose parameters the optimizer registered under role r holds:
\* the loop of lines 36-42 overwrites the entry of an earlier agent
Owner(c, r) ==
    CHOOSE a \in 0 .. c.num_agent - 1 :
        /\ c.role[a] = r
        /\ \A b \in 0 .. c.num_agent - 1 : c.role[b] = r => b <= a

\* the keys of self.policy_optimizer after lines 35-42, in insertion order
RECURSIVE RoleSeq(_, _)
RoleSeq(c, a) ==
    IF a < 0 THEN <<>>
    ELSE LET before == RoleSeq(c, a - 1)
         IN IF \E i \in 1 .. Len(before) : before[i] = c.role[a]
            THEN before ELSE Append(before, c.role[a])

RolesOf(c) == {c.role[a] : a \in 0 .. c.num_agent - 1}

NoRet ==
    [kind |-> "none", line |-> 0, value_loss |-> Zero, critic_grad_norm |-> Zero,
     policy_loss |-> Zero, policy_grad_norm |-> Zero, approx_kl |-> Zero,
     entropy |-> Zero]

NoUpd ==
    [sample |-> <<>>, global_steps |-> 0, agent_to_train |-> None,
     batch_size |-> 0, cp_batch_size |-> 0, warned |-> FALSE, start |-> 0,
     value_loss |-> Zero, critic_grad_norm |-> Zero,
     total_approx_kl |-> Zero, total_entropy |-> Zero, policy_loss |-> Zero,
     total_policy_grad_norm |-> Zero,
     critic_chunks |-> <<>>, policy_chunks |-> <<>>,
     critic_weight |-> Zero, policy_weight |-> Zero,
     critic_steps |-> 0, policy_zero_grads |-> 0, policy_steps |-> <<>>,
     critic_before |-> FreshOpt, policy_before |-> <<>>]

NoTrainInfo ==
    [value_loss |-> Zero, value_grad_norm |-> Zero, policy_loss |-> Zero,
     policy_grad_norm |-> Zero, entropy |-> Zero, approx_kl |-> Zero]

NoTrain ==
    [active |-> FALSE, global_steps |-> 0, buffer |-> <<>>, epoch |-> 0,
     gen |-> FALSE, iter |-> 0, samples |-> 0, update_time |-> 0,
     train_info |-> NoTrainInfo, result |-> "none", returned |-> <<>>]

NoSaved == [valid |-> FALSE, policy |-> <<>>, critic |-> FreshOpt]

NoCkpt == [present |-> FALSE, policy_opt_states |-> <<>>, critic_opt_state |-> FreshOpt]

\* the trainer after __init__ (lines 15-43), args.load_path being None
Constructed(configs) ==
    /\ cfg \in configs
    /\ policy_optimizer = [r \in RolesOf(cfg) |-> FreshOpt]
    /\ critic_optimizer = FreshOpt
    /\ critic_grad = NoGrad
    /\ policy_grad = [a \in Agents |-> NoGrad]
    /\ ckpt = NoCkpt
    /\ io = "none"
    /\ pc = "idle"
    /\ upd = NoUpd
    /\ ret = NoRet
    /\ tr = NoTrain
    /\ saved = NoSaved

\* no call of a pure step is followed
NoFn == [op |-> "none", input |-> <<>>, output |-> <<>>, done |-> FALSE]

Init == Constructed(TrainerConfigs) /\ fn = NoFn

InitUpdate == Constructed(UpdateConfigs) /\ fn = NoFn

\* ------------------------------------------------------- ppo_update
\* lines 207-213 of train: the returned diagnostics are added up
TrainAccumulate(info, r) ==
    [value_loss |-> RAdd(info.value_loss, r.value_loss),
     value_grad_norm |-> RAdd(info.value_grad_norm, r.critic_grad_norm),
     policy_loss |-> RAdd(info.policy_loss, r.policy_loss),
     policy_grad_norm |-> RAdd(info.policy_grad_norm, r.policy_grad_norm),
     entropy |-> RAdd(info.entropy, r.entropy),
     approx_kl |-> RAdd(info.approx_kl, r.approx_kl)]

\* a return statement of ppo_update: back to the caller, which is train's
\* loop body (lines 204-213) or the code that called ppo_update itself
Return(r) ==
    /\ ret' = r
    /\ IF tr.active
       THEN /\ tr' = [tr EXCEPT !.train_info = TrainAccumulate(tr.train_info, r),
                                !.update_time = tr.update_time + 1,
                                !.iter = tr.iter + 1,
                                !.returned = Append(tr.returned, r)]
            /\ pc' = "train_loop"
       ELSE /\ tr' = tr
            /\ pc' = "idle"

\* an exception leaving ppo_update: train does not catch it
Raise(exc) ==
    /\ ret' = [NoRet EXCEPT !.kind = exc]
    /\ tr' = IF tr.active THEN [tr EXCEPT !.active = FALSE, !.result = exc] ELSE tr
    /\ pc' = "idle"

\* lines 87-114: agent selection, batch_size, cp_batch_size, and the reset
\* of the critic gradients. batch_size // 0 raises ZeroDivisionError.
PpoUpdateCall(sample, global_steps) ==
    LET batch_size == BatchSize(sample)
        entry == [NoUpd EXCEPT
                    !.sample = sample,
                    !.global_steps = global_steps,
                    !.agent_to_train =
                        AgentToTrain(global_steps, cfg.agent_iteration_interval,
                                     cfg.num_agent),
                    !.batch_size = batch_size,
                    !.critic_before = critic_optimizer,
                    !.policy_before = policy_optimizer]
    IN IF cfg.gradient_cp_steps = 0
       THEN /\ upd' = entry
            /\ Raise("ZeroDivisionError")
            /\ UNCHANGED critic_grad
       ELSE /\ upd' = [entry EXCEPT
                         !.cp_batch_size =
                             CpBatchSize(batch_size, cfg.gradient_cp_steps),
                         !.warned =
                             PyFloorDiv(batch_size, cfg.gradient_cp_steps) = 0]
            /\ critic_grad' = NoGrad
            /\ ret' = NoRet
            /\ tr' = tr
            /\ pc' = "critic_loop"

\* a caller invokes ppo_update(sample, global_steps) on the new trainer
PpoUpdate ==
    /\ pc = "idle"
    /\ upd = NoUpd
    /\ \E sample \in Batches(cfg.num_agent), global_steps \in 0 .. MaxGlobalSteps :
          PpoUpdateCall(sample, global_steps)
    /\ UNCHANGED <<cfg, fn, policy_optimizer, critic_optimizer, policy_grad, ckpt, io, saved>>

\* one pass of the critic loop, lines 115-126
CriticChunk ==
    /\ pc = "critic_loop"
    /\ RangeHas(upd.start, upd.batch_size, upd.cp_batch_size)
    /\ LET end == ChunkEnd(upd.start, upd.cp_batch_size, upd.batch_size)
           cp_weight == CpWeight(upd.start, end, upd.batch_size)
           P == Positions(upd.sample, upd.start, end, Agents)
           cp_value_loss == RMul(cal_value_loss(upd.sample, P), cp_weight)
       IN /\ critic_grad' =
                 Backward(critic_grad,
                          RMul(cal_value_loss_grad(upd.sample, P), cp_weight))
          /\ upd' = [upd EXCEPT
                       !.value_loss = RAdd(upd.value_loss, cp_value_loss),
                       !.critic_chunks = Append(upd.critic_chunks, <<upd.start, end>>),
                       !.critic_weight = RAdd(upd.critic_weight, cp_weight),
                       !.start = upd.start + upd.cp_batch_size]
    /\ UNCHANGED <<cfg, fn, policy_optimizer, critic_optimizer, policy_grad, ckpt, io,
                   pc, ret, tr, saved>>

\* line 136
WarmupReturn(u) ==
    [kind |-> "tuple", line |-> 136, value_loss |-> u.value_loss,
     critic_grad_norm |-> u.critic_grad_norm, policy_loss |-> Zero,
     policy_grad_norm |-> Zero, approx_kl |-> Zero, entropy |-> Zero]

\* line 135
InWarmup(global_steps, warmup_steps) == global_steps < warmup_steps

\* the agents whose gradients optimizer.zero_grad() resets at line 140
ZeroedAgents == {Owner(cfg, r) : r \in DOMAIN policy_optimizer}

\* lines 128-131
CriticClip(grad, use_max_grad_norm) == IF use_max_grad_norm THEN Clip(grad) ELSE grad

\* lines 128-144 with critic_optimizer.step() moved behind the warmup gate
CriticStepGated ==
    /\ pc = "critic_loop"
    /\ ~RangeHas(upd.start, upd.batch_size, upd.cp_batch_size)
    /\ LET stepped == CriticClip(critic_grad, cfg.use_max_grad_norm)
           u == [upd EXCEPT !.critic_grad_norm = NormOf(critic_grad), !.start = 0]
       IN /\ critic_grad' = stepped
          /\ \/ /\ InWarmup(upd.global_steps, cfg.warmup_steps)
                /\ upd' = u
                /\ critic_optimizer' = critic_optimizer
                /\ Return(WarmupReturn(u))
                /\ UNCHANGED policy_grad
             \/ /\ ~InWarmup(upd.global_steps, cfg.warmup_steps)
                /\ upd' = [u EXCEPT !.policy_zero_grads = 1, !.critic_steps = 1]
                /\ critic_optimizer' = OptStep(critic_optimizer, stepped)
                /\ policy_grad' =
                       [a \in Agents |->
                           IF a \in ZeroedAgents THEN NoGrad ELSE policy_grad[a]]
                /\ pc' = "policy_loop"
                /\ UNCHANGED <<ret, tr>>
    /\ UNCHANGED <<cfg, fn, policy_optimizer, ckpt, io, saved>>

\* lines 128-144, after the critic loop: the critic's gradient norm, the
\* critic optimizer step, the warmup gate and the reset of the policy gradients
CriticStep ==
    /\ pc = "critic_loop"
    /\ ~RangeHas(upd.start, upd.batch_size, upd.cp_batch_size)
    /\ LET stepped == CriticClip(critic_grad, cfg.use_max_grad_norm)
           u == [upd EXCEPT !.critic_grad_norm = NormOf(critic_grad),
                            !.critic_steps = upd.critic_steps + 1,
                            !.start = 0]
       IN /\ critic_grad' = stepped
          /\ critic_optimizer' = OptStep(critic_optimizer, stepped)
          /\ \/ /\ InWarmup(upd.global_steps, cfg.warmup_steps)
                /\ upd' = u
                /\ Return(WarmupReturn(u))
                /\ UNCHANGED policy_grad
             \/ /\ ~InWarmup(upd.global_steps, cfg.warmup_steps)
                /\ upd' = [u EXCEPT !.policy_zero_grads = 1]
                /\ policy_grad' =
                       [a \in Agents |->
                           IF a \in ZeroedAgents THEN NoGrad ELSE policy_grad[a]]
                /\ pc' = "policy_loop"
                /\ UNCHANGED <<ret, tr>>
    /\ UNCHANGED <<cfg, fn, policy_optimizer, ckpt, io, saved>>

\* the agents a policy chunk's forward and backward pass runs through:
\* get_token_logits is restricted to agent_to_train when it is set (line 152)
TrainedAgents(agent_to_train) ==
    IF agent_to_train # None THEN {agent_to_train} ELSE Agents

\* one pass of the policy loop, lines 145-166
PolicyChunk ==
    /\ pc = "policy_loop"
    /\ RangeHas(upd.start, upd.batch_size, upd.cp_batch_size)
    /\ LET end == ChunkEnd(upd.start, upd.cp_batch_size, upd.batch_size)
           cp_weight == CpWeight(upd.start, end, upd.batch_size)
           sel == TrainedAgents(upd.agent_to_train)
           P == Positions(upd.sample, upd.start, end, sel)
           loss == cal_policy_loss(upd.sample, P)
           cp_policy_loss == RMul(loss.policy_loss, cp_weight)
       IN /\ policy_grad' =
                 [a \in Agents |->
                     IF a \in sel
                     THEN Backward(policy_grad[a],
                                   RMul(cal_policy_loss_grad(upd.sample, P,
                                            Positions(upd.sample, upd.start, end, {a})),
                                        cp_weight))
                     ELSE policy_grad[a]]
          /\ upd' = [upd EXCEPT
                       !.total_approx_kl =
                           RAdd(upd.total_approx_kl, RMul(loss.approx_kl, cp_weight)),
                       !.total_entropy =
                           RAdd(upd.total_entropy, RMul(loss.entropy, cp_weight)),
                       !.policy_loss = RAdd(upd.policy_loss, cp_policy_loss),
                       !.policy_chunks = Append(upd.policy_chunks, <<upd.start, end>>),
                       !.policy_weight = RAdd(upd.policy_weight, cp_weight),
                       !.start = upd.start + upd.cp_batch_size]
    /\ UNCHANGED <<cfg, fn, policy_optimizer, critic_optimizer, critic_grad, ckpt, io,
                   pc, ret, tr, saved>>

\* line 168 with the threshold a power of ten too large (1.7e-5)
KLExceededLoose(total_approx_kl) == RGt(total_approx_kl, Whole(10 * KLThreshold))

\* line 168
KLExceeded(total_approx_kl) == RGt(total_approx_kl, Whole(KLThreshold))

\* line 169
KLReturn(u) ==
    [kind |-> "tuple", line |-> 169, value_loss |-> u.value_loss,
     critic_grad_norm |-> u.critic_grad_norm, policy_loss |-> Zero,
     policy_grad_norm |-> Zero, approx_kl |-> u.total_approx_kl,
     entropy |-> u.total_entropy]

\* line 182: policy_grad_norm is the norm measured last
FullReturn(u, policy_grad_norm) ==
    [kind |-> "tuple", line |-> 182, value_loss |-> u.value_loss,
     critic_grad_norm |-> u.critic_grad_norm, policy_loss |-> u.policy_loss,
     policy_grad_norm |-> policy_grad_norm, approx_kl |-> u.total_approx_kl,
     entropy |-> u.total_entropy]

\* lines 172-175 / 178-180 for one agent: clip that agent's gradient, then
\* step the optimizer registered under its role, which holds the parameter
\* of that role's owner. st = [opts, grads, log, norm, total].
AgentStep(st, a) ==
    LET grads == [st.grads EXCEPT ![a] = Clip(st.grads[a])]
        r == cfg.role[a]
        o == Owner(cfg, r)
        norm == NormOf(st.grads[a])
    IN [opts |-> [st.opts EXCEPT ![r] = OptStep(st.opts[r], grads[o])],
        grads |-> grads,
        log |-> Append(st.log, [role |-> r, agent |-> a, owner |-> o,
                                 applied |-> grads[o].set,
                                 clipped |-> grads[o].clipped]),
        norm |-> norm,
        total |-> RAdd(st.total, norm)]

\* the loop of lines 177-180 over agents a .. num_agent-1
RECURSIVE JointSteps(_, _)
JointSteps(st, a) ==
    IF a >= cfg.num_agent THEN st ELSE JointSteps(AgentStep(st, a), a + 1)

\* lines 171-180
PolicySteps(agent_to_train) ==
    LET st == [opts |-> policy_optimizer, grads |-> policy_grad, log |-> <<>>,
               norm |-> Zero, total |-> Zero]
    IN IF agent_to_train # None THEN AgentStep(st, agent_to_train)
       ELSE JointSteps(st, 0)

\* lines 168-182, after the policy loop: the KL gate, then the policy
\* optimizer steps
PolicyCommit ==
    /\ pc = "policy_loop"
    /\ ~RangeHas(upd.start, upd.batch_size, upd.cp_batch_size)
    /\ \/ /\ KLExceeded(upd.total_approx_kl)
          /\ Return(KLReturn(upd))
          /\ UNCHANGED <<upd, policy_optimizer, policy_grad>>
       \/ /\ ~KLExceeded(upd.total_approx_kl)
          /\ LET st == PolicySteps(upd.agent_to_train)
             IN /\ policy_optimizer' = st.opts
                /\ policy_grad' = st.grads
                /\ upd' = [upd EXCEPT !.policy_steps = st.log,
                                      !.total_policy_grad_norm = st.total]
                /\ Return(FullReturn(upd, st.norm))
    /\ UNCHANGED <<cfg, fn, critic_optimizer, critic_grad, ckpt, io, saved>>

NextUpdate ==
    \/ PpoUpdate
    \/ CriticChunk
    \/ CriticStep
    \/ PolicyChunk
    \/ PolicyCommit

SpecUpdate == InitUpdate /\ [][NextUpdate]_vars

\* ------------------------------------------------------------ train
\* lines 191-200: train(buffer, global_steps) is called on the idle trainer.
\* The runs explored hold one call of train, with save_optimizers and
\* load_optimizers called any number of times before and after it.
Train ==
    /\ pc = "idle"
    /\ tr = NoTrain
    /\ \E buffer \in Buffers(cfg.num_agent), global_steps \in 0 .. MaxGlobalSteps :
          tr' = [NoTrain EXCEPT !.active = TRUE, !.buffer = buffer,
                                !.global_steps = global_steps]
    /\ pc' = "train_loop"
    /\ upd' = NoUpd
    /\ ret' = NoRet
    /\ io' = "none"
    /\ UNCHANGED <<cfg, fn, policy_optimizer, critic_optimizer, critic_grad, policy_grad,
                   ckpt, saved>>

\* lines 201-202: the next pass begins with buffer.sample(num_mini_batch)
TrainSample ==
    /\ pc = "train_loop"
    /\ ~tr.gen
    /\ tr.epoch < cfg.ppo_epoch
    /\ tr' = [tr EXCEPT !.gen = TRUE, !.iter = 0, !.samples = tr.samples + 1]
    /\ UNCHANGED <<cfg, fn, policy_optimizer, critic_optimizer, critic_grad, policy_grad,
                   ckpt, io, pc, upd, ret, saved>>

\* lines 203-206 with a global_steps that counts the updates of this call
TrainUpdateAdvancing ==
    /\ pc = "train_loop"
    /\ tr.gen
    /\ tr.iter < Len(tr.buffer)
    /\ PpoUpdateCall(tr.buffer[tr.iter + 1], tr.global_steps + tr.update_time)
    /\ UNCHANGED <<cfg, fn, policy_optimizer, critic_optimizer, policy_grad, ckpt, io, saved>>

\* lines 203-206: the generator yields a minibatch and ppo_update is called
\* with train's own global_steps
TrainUpdate ==
    /\ pc = "train_loop"
    /\ tr.gen
    /\ tr.iter < Len(tr.buffer)
    /\ PpoUpdateCall(tr.buffer[tr.iter + 1], tr.global_steps)
    /\ UNCHANGED <<cfg, fn, policy_optimizer, critic_optimizer, policy_grad, ckpt, io, saved>>

\* line 203: the generator is exhausted, the pass ends
TrainPassEnd ==
    /\ pc = "train_loop"
    /\ tr.gen
    /\ tr.iter >= Len(tr.buffer)
    /\ tr' = [tr EXCEPT !.gen = FALSE, !.epoch = tr.epoch + 1]
    /\ UNCHANGED <<cfg, fn, policy_optimizer, critic_optimizer, critic_grad, policy_grad,
                   ckpt, io, pc, upd, ret, saved>>

\* x / n (line 216), n # 0
RDiv(x, n) == RMul(x, Frac(1, n))

\* lines 215-216 dividing by the number of passes
TrainMeansPerPass(info, update_time) ==
    [k \in DOMAIN info |-> RDiv(info[k], cfg.ppo_epoch)]

\* lines 215-216
TrainMeans(info, update_time) ==
    [k \in DOMAIN info |-> RDiv(info[k], update_time)]

\* lines 215-218: the sums are divided by update_time; a float divided by the
\* int 0 raises ZeroDivisionError
TrainEnd ==
    /\ pc = "train_loop"
    /\ ~tr.gen
    /\ tr.epoch >= cfg.ppo_epoch
    /\ \/ /\ tr.update_time = 0
          /\ tr' = [tr EXCEPT !.active = FALSE, !.result = "ZeroDivisionError"]
       \/ /\ tr.update_time # 0
          /\ tr' = [tr EXCEPT !.active = FALSE, !.result = "dict",
                              !.train_info = TrainMeans(tr.train_info, tr.update_time)]
    /\ pc' = "idle"
    /\ UNCHANGED <<cfg, fn, policy_optimizer, critic_optimizer, critic_grad, policy_grad,
                   ckpt, io, upd, ret, saved>>

\* ------------------------------------------ save_optimizers, load_optimizers
\* lines 224-230: the dictionary torch.save writes
Snapshot(opts, critic, roles) ==
    [present |-> TRUE,
     policy_opt_states |->
         [i \in 1 .. Len(roles) |-> [role |-> roles[i], state |-> opts[roles[i]]]],
     critic_opt_state |-> critic]

\* lines 220-233
SaveOptimizers ==
    /\ pc = "idle"
    /\ ckpt' = Snapshot(policy_optimizer, critic_optimizer, RoleSeq(cfg, cfg.num_agent - 1))
    /\ io' = "saved"
    /\ saved' = [valid |-> TRUE, policy |-> policy_optimizer, critic |-> critic_optimizer]
    /\ UNCHANGED <<cfg, fn, policy_optimizer, critic_optimizer, critic_grad, policy_grad,
                   pc, upd, ret, tr>>

\* the loop of lines 237-239 with a dictionary that grows: an unknown role
\* gets an entry of its own
RECURSIVE LoadPolicyGrowing(_, _, _)
LoadPolicyGrowing(opts, states, i) ==
    IF i > Len(states) THEN [opts |-> opts, ok |-> TRUE]
    ELSE LoadPolicyGrowing(
             [r \in DOMAIN opts \cup {states[i].role} |->
                 IF r = states[i].role THEN states[i].state ELSE opts[r]],
             states, i + 1)

\* the loop of lines 237-239 from entry i of the file on: each state is loaded
\* into the optimizer registered under its role; self.policy_optimizer[role]
\* raises KeyError for a role that is not registered
RECURSIVE LoadPolicy(_, _, _)
LoadPolicy(opts, states, i) ==
    IF i > Len(states) THEN [opts |-> opts, ok |-> TRUE]
    ELSE IF states[i].role \notin DOMAIN opts THEN [opts |-> opts, ok |-> FALSE]
    ELSE LoadPolicy([opts EXCEPT ![states[i].role] = states[i].state], states, i + 1)

\* load_optimizers without line 240
LoadCriticSkipped(critic, file) == critic

\* line 240
LoadCritic(critic, file) == file.critic_opt_state

\* lines 235-241, on an existing file
LoadOptimizers ==
    /\ pc = "idle"
    /\ ckpt.present
    /\ LET res == LoadPolicy(policy_optimizer, ckpt.policy_opt_states, 1)
       IN /\ policy_optimizer' = res.opts
          /\ \/ /\ res.ok
                /\ critic_optimizer' = LoadCritic(critic_optimizer, ckpt)
                /\ io' = "loaded"
             \/ /\ ~res.ok
                /\ critic_optimizer' = critic_optimizer
                /\ io' = "KeyError"
    /\ UNCHANGED <<cfg, fn, critic_grad, policy_grad, ckpt, pc, upd, ret, tr, saved>>

\* optimizers.pt files that another trainer wrote: for role 0 alone, or with
\* a role this MAS does not have (num_agent is never a role here)
ForeignCkpts(c) ==
    LET st == [step |-> 3, buf |-> "finite"]
        e(r) == [role |-> r, state |-> st]
    IN {[present |-> TRUE, policy_opt_states |-> p, critic_opt_state |-> st] :
          p \in {<<e(0)>>, <<e(0), e(c.num_agent)>>, <<e(c.num_agent), e(0)>>}}

\* such a file is put where load_optimizers will read
ForeignCheckpoint ==
    /\ pc = "idle"
    /\ ~ckpt.present
    /\ ckpt' \in ForeignCkpts(cfg)
    /\ UNCHANGED <<cfg, fn, policy_optimizer, critic_optimizer, critic_grad, policy_grad,
                   io, pc, upd, ret, tr, saved>>

Next ==
    \/ Train
    \/ TrainSample
    \/ TrainUpdate
    \/ TrainPassEnd
    \/ TrainEnd
    \/ CriticChunk
    \/ CriticStep
    \/ PolicyChunk
    \/ PolicyCommit
    \/ SaveOptimizers
    \/ LoadOptimizers
    \/ ForeignCheckpoint

Spec == Init /\ [][Next]_vars

\* ------------------------------------------------ the pure steps
\* the calls followed: the advantage normalisation of ppo_update on an
\* advantages array, or cal_token_mask on an action_tokens array
PureCalls ==
    {[op |-> "advantages", input |-> a, output |-> <<>>, done |-> FALSE] :
        a \in AdvantageArrays}
    \cup {[op |-> "cal_token_mask", input |-> t, output |-> <<>>, done |-> FALSE] :
             t \in ActionTokenArrays}

InitPure == Constructed(TrainerConfigs) /\ fn \in PureCalls

\* lines 95-99
AdvantageNormalization ==
    /\ fn.op = "advantages"
    /\ ~fn.done
    /\ fn' = [fn EXCEPT !.output = NormalizedAdvantages(fn.input), !.done = TRUE]
    /\ UNCHANGED <<cfg, policy_optimizer, critic_optimizer, critic_grad, policy_grad,
                   ckpt, io, pc, upd, ret, tr, saved>>

\* lines 48-51
CalTokenMask ==
    /\ fn.op = "cal_token_mask"
    /\ ~fn.done
    /\ fn' = [fn EXCEPT !.output = TokenMask(fn.input), !.done = TRUE]
    /\ UNCHANGED <<cfg, policy_optimizer, critic_optimizer, critic_grad, policy_grad,
                   ckpt, io, pc, upd, ret, tr, saved>>

NextPure ==
    \/ AdvantageNormalization
    \/ CalTokenMask

SpecPure == InitPure /\ [][NextPure]_vars

\* ------------------------------------------------------------ claims
\* a ppo_update call has been made; it has ended (returned or raised); its
\* critic loop, its policy loop is over
Called == upd.batch_size > 0
Ended == Called /\ pc = "idle"
CriticLoopDone == Called /\ upd.critic_steps = 1
PolicyLoopDone == Called /\ ret.line \in {169, 182}
AllPositions(agents) == Positions(upd.sample, 0, upd.batch_size, agents)

\* C1: KL gate. When a ppo_update call with global_steps >= warmup_steps has
\* ended and the approx-KL accumulated over its chunks exceeds 1.7e-6, the call
\* has returned a tuple with policy_loss = 0 and policy_grad_norm = 0 that
\* carries the accumulated approx_kl and entropy, no policy optimizer was
\* stepped in the call (every policy optimizer's state is what it was at the
\* call's entry), and the critic optimizer holds the one step the call applied
\* to it.
C1_KLGate ==
    (/\ Ended
     /\ upd.global_steps >= cfg.warmup_steps
     /\ ~IsNaN(upd.total_approx_kl)
     /\ upd.total_approx_kl[1] > KLThreshold * upd.total_approx_kl[2])
    => /\ ret.kind = "tuple"
       /\ upd.policy_steps = <<>>
       /\ policy_optimizer = upd.policy_before
       /\ ret.policy_loss = Zero
       /\ ret.policy_grad_norm = Zero
       /\ ret.approx_kl = upd.total_approx_kl
       /\ ret.entropy = upd.total_entropy
       /\ ret.value_loss = upd.value_loss
       /\ ret.critic_grad_norm = upd.critic_grad_norm
       /\ upd.critic_steps = 1
       /\ critic_optimizer.step = upd.critic_before.step + 1

\* a call rejected by the KL gate on a two-chunk batch, under rotation, the
\* measured entropy and approx_kl reported and the critic stepped
C1_Witness ==
    /\ Ended
    /\ ret.line = 169
    /\ upd.agent_to_train # None
    /\ Len(upd.policy_chunks) = 2
    /\ RGt(ret.approx_kl, Whole(KLThreshold))
    /\ ret.entropy # Zero
    /\ ret.policy_loss = Zero
    /\ critic_optimizer.step = 1

\* C2: warmup gate. A ppo_update call with global_steps < warmup_steps never
\* runs a policy forward / backward pass, never resets the policy gradients
\* and never steps a policy optimizer; once it has ended it has returned
\* (value_loss, critic_grad_norm, 0, 0, 0, 0) and critic_optimizer.step() has
\* been called once.
C2_WarmupGate ==
    (Called /\ upd.global_steps < cfg.warmup_steps)
    => /\ pc # "policy_loop"
       /\ upd.policy_chunks = <<>>
       /\ upd.policy_zero_grads = 0
       /\ upd.policy_steps = <<>>
       /\ policy_optimizer = upd.policy_before
       /\ pc = "idle" =>
             /\ ret = WarmupReturn(upd)
             /\ upd.critic_steps = 1

\* C3: agent rotation. With agent_iteration_interval = I > 0 and N agents, a
\* call with global_steps in [k*I, (k+1)*I) selects agent_to_train =
\* (k+1) mod N, an index in 0 .. N-1; with I <= 0 it selects none.
C3_Rotation ==
    Called =>
        LET I == cfg.agent_iteration_interval
            N == cfg.num_agent
        IN /\ I > 0 =>
                /\ upd.agent_to_train \in 0 .. N - 1
                /\ \A k \in 0 .. MaxGlobalSteps :
                      (k * I <= upd.global_steps /\ upd.global_steps < (k + 1) * I)
                      => upd.agent_to_train = (k + 1) % N
           /\ I <= 0 => upd.agent_to_train = None

\* the second time slice of a two-step rotation over two agents: back to agent 0
C3_Witness ==
    /\ Called
    /\ cfg.agent_iteration_interval = 2
    /\ cfg.num_agent = 2
    /\ upd.global_steps = 3
    /\ upd.agent_to_train = 0

\* C4: gradient accumulation equivalence. For a gradient_cp_steps that evenly
\* divides batch_size, the value loss summed over the chunks of the critic
\* loop, each chunk's masked mean weighted by chunk_size / batch_size, equals
\* the masked-mean value loss of the whole batch; likewise the policy loss
\* summed over the chunks of the policy loop.
C4_AccumulationEquivalence ==
    (/\ Called
     /\ cfg.gradient_cp_steps >= 1
     /\ upd.batch_size % cfg.gradient_cp_steps = 0)
    => /\ CriticLoopDone =>
             upd.value_loss = cal_value_loss(upd.sample, AllPositions(Agents))
       /\ PolicyLoopDone =>
             upd.policy_loss =
                 cal_policy_loss(upd.sample,
                     AllPositions(TrainedAgents(upd.agent_to_train))).policy_loss

\* the chunks range(0, batch_size, size) yields with the last one cut at batch_size
RECURSIVE ChunksOf(_, _, _)
ChunksOf(start, size, batch_size) ==
    IF start >= batch_size THEN <<>>
    ELSE <<<<start, IF start + size > batch_size THEN batch_size ELSE start + size>>>>
         \o ChunksOf(start + size, size, batch_size)

\* ceil(a / b), b > 0
CeilDiv(a, b) == (a + b - 1) \div b

\* a loop over chunks ch of a batch cut into n chunks of q samples, the last
\* one holding what is left
Partitioned(ch, n, q, batch_size) ==
    /\ Len(ch) = n
    /\ \A i \in 1 .. Len(ch) :
          /\ ch[i][1] = (i - 1) * q
          /\ i < Len(ch) => ch[i][2] - ch[i][1] = q
          /\ i = Len(ch) => ch[i][2] = batch_size

C6_NoNaNInOptimizer ==
    /\ critic_optimizer.buf # "nan"
    /\ \A r \in DOMAIN policy_optimizer : policy_optimizer[r].buf # "nan"

\* C7: degenerate gradient_cp_steps. A call whose gradient_cp_steps is <= 0 or
\* greater than batch_size raises nothing: it uses chunk size 1 with the
\* warning, runs every sample through the critic loop and returns its tuple.
C7_DegenerateCpSteps ==
    (Called /\ (cfg.gradient_cp_steps <= 0 \/ cfg.gradient_cp_steps > upd.batch_size))
    => /\ ret.kind \in {"none", "tuple"}
       /\ upd.cp_batch_size = 1
       /\ upd.warned
       /\ CriticLoopDone => upd.critic_chunks = ChunksOf(0, 1, upd.batch_size)
       /\ pc = "idle" => ret.kind = "tuple"

\* the sum of one diagnostic over the tuples a sequence of updates returned
RECURSIVE SumOver(_, _)
SumOver(rets, field) ==
    IF rets = <<>> THEN Zero
    ELSE RAdd(SumOver(SubSeq(rets, 1, Len(rets) - 1), field), rets[Len(rets)][field])

\* train's key for each position of the tuple ppo_update returns
TupleField ==
    [value_loss |-> "value_loss", value_grad_norm |-> "critic_grad_norm",
     policy_loss |-> "policy_loss", policy_grad_norm |-> "policy_grad_norm",
     entropy |-> "entropy", approx_kl |-> "approx_kl"]

\* C8: epoch driver. train samples the buffer once per pass, for ppo_epoch
\* passes, and calls ppo_update once per minibatch yielded, one call at a time
\* and with the minibatch the generator is at; a train call in which an update
\* was performed returns the mapping whose six entries are each the sum of
\* that diagnostic over all the updates, divided by their number, which is
\* ppo_epoch times the number of minibatches yielded per pass.
C8_EpochDriver ==
    tr # NoTrain =>
        /\ tr.samples <= cfg.ppo_epoch
        /\ tr.samples = tr.epoch + (IF tr.gen THEN 1 ELSE 0)
        /\ tr.update_time = Len(tr.returned)
        /\ tr.update_time = tr.epoch * Len(tr.buffer) + (IF tr.gen THEN tr.iter ELSE 0)
        /\ pc \in {"critic_loop", "policy_loop"} =>
              /\ tr.active /\ tr.gen
              /\ upd.sample = tr.buffer[tr.iter + 1]
              /\ upd.global_steps = tr.global_steps
        /\ (~tr.active /\ tr.update_time > 0) =>
              /\ tr.result = "dict"
              /\ tr.samples = cfg.ppo_epoch
              /\ tr.update_time = cfg.ppo_epoch * Len(tr.buffer)
              /\ DOMAIN tr.train_info = DOMAIN TupleField
              /\ \A k \in DOMAIN TupleField :
                    tr.train_info[k] =
                        RDiv(SumOver(tr.returned, TupleField[k]), tr.update_time)

\* two passes over two minibatches: four updates with different losses, past
\* both gates, averaged
C8_Witness ==
    /\ tr.result = "dict"
    /\ cfg.ppo_epoch = 2
    /\ Len(tr.buffer) = 2
    /\ tr.update_time = 4
    /\ tr.returned[1].value_loss # tr.returned[2].value_loss
    /\ tr.returned[1].line = 182
    /\ ~IsNaN(tr.train_info.value_loss)
    /\ tr.train_info.policy_loss # Zero
    /\ tr.train_info.entropy # tr.train_info.approx_kl

\* the state the file holds for role r: that of the last entry written for r
FileState(file, r) ==
    LET idx == {i \in 1 .. Len(file.policy_opt_states) : file.policy_opt_states[i].role = r}
    IN file.policy_opt_states[CHOOSE i \in idx : \A j \in idx : j <= i].state
FileRoles(file) ==
    {file.policy_opt_states[i].role : i \in 1 .. Len(file.policy_opt_states)}

\* C9: checkpoint round-trip. After save_optimizers the file holds the state
\* of every registered policy optimizer and of the critic optimizer; after
\* load_optimizers of the file the trainer wrote, whatever updates ran in
\* between, every registered policy optimizer and the critic optimizer are in
\* the state they had at save time; saving again writes the same file and
\* loading again leaves the same state.
C9_RoundTrip ==
    /\ io = "saved" =>
          /\ ckpt.present
          /\ FileRoles(ckpt) = RolesOf(cfg)
          /\ \A r \in RolesOf(cfg) : FileState(ckpt, r) = policy_optimizer[r]
          /\ ckpt.critic_opt_state = critic_optimizer
          /\ Snapshot(policy_optimizer, critic_optimizer,
                      RoleSeq(cfg, cfg.num_agent - 1)) = ckpt
    /\ (io = "loaded" /\ saved.valid) =>
          /\ policy_optimizer = saved.policy
          /\ critic_optimizer = saved.critic
    /\ io = "loaded" =>
          /\ \A r \in FileRoles(ckpt) : policy_optimizer[r] = FileState(ckpt, r)
          /\ critic_optimizer = ckpt.critic_opt_state
          /\ LoadPolicy(policy_optimizer, ckpt.policy_opt_states, 1).opts = policy_optimizer
          /\ LoadCritic(critic_optimizer, ckpt) = critic_optimizer

\* saved on the new trainer, trained past both gates, then loaded: the
\* optimizers are back at their state before the updates
C9_Witness ==
    /\ io = "loaded"
    /\ saved.valid
    /\ tr.result = "dict"
    /\ tr.returned[1].line = 182
    /\ critic_optimizer = FreshOpt
    /\ \A r \in RolesOf(cfg) : policy_optimizer[r] = FreshOpt

\* C10: load rejects unknown roles. load_optimizers raises KeyError exactly
\* when the file holds a role that is not a key of self.policy_optimizer, and
\* the keys of self.policy_optimizer are at all times the roles of the agents
\* given at construction.
C10_UnknownRoles ==
    /\ DOMAIN policy_optimizer = RolesOf(cfg)
    /\ io \in {"loaded", "KeyError"} =>
          (io = "KeyError" <=> ~(FileRoles(ckpt) \subseteq RolesOf(cfg)))

\* a file whose second entry is for an unknown role: the first entry was
\* loaded, then KeyError, and the registry has the keys it had
C10_Witness ==
    /\ io = "KeyError"
    /\ ckpt.policy_opt_states[2].role \notin RolesOf(cfg)
    /\ policy_optimizer[0] = ckpt.policy_opt_states[1].state
    /\ DOMAIN policy_optimizer = RolesOf(cfg)

\* the sum of a function's rational values
RECURSIVE RSumFn(_)
RSumFn(f) ==
    IF DOMAIN f = {} THEN Zero
    ELSE LET x == CHOOSE y \in DOMAIN f : TRUE
         IN RAdd(f[x], RSumFn([y \in DOMAIN f \ {x} |-> f[y]]))

\* C11: advantage normalisation. For an advantages array with a non-zero
\* entry, the mean and the standard deviation used are those of the non-zero
\* entries alone, every entry a, the zero ones too, becomes
\* (a - mean) / (std + 1e-8), and the result has the shape of the input and
\* holds no NaN; for an all-zero array the step completes (with NaN entries).
C11_AdvantageNormalization ==
    (fn.op = "advantages" /\ fn.done) =>
        LET a == fn.input
            nz == {i \in DOMAIN a : a[i] # 0}
            k == Cardinality(nz)
            mean == mean_advantages(a)
            std == std_advantages(a)
        IN /\ DOMAIN fn.output = DOMAIN a
           /\ k > 0 =>
                 /\ RMul(mean, Whole(k)) = RSumFn([i \in nz |-> Whole(a[i])])
                 /\ ~RGt(Zero, std)
                 /\ RMul(RMul(std, std), Whole(k)) =
                        RSumFn([i \in nz |->
                                   RMul(RSub(Whole(a[i]), mean), RSub(Whole(a[i]), mean))])
                 /\ \A i \in DOMAIN a :
                       /\ ~IsNaN(fn.output[i])
                       /\ RMul(fn.output[i], RAdd(std, <<1, EpsPerUnit>>)) =
                              RSub(Whole(a[i]), mean)
           /\ k = 0 => \A i \in DOMAIN a : IsNaN(fn.output[i])

\* [0, 2, -2] normalised: mean 0 and std 2 of the two non-zero entries, the
\* zero entry mapped to 0 and the others to +-2 / (2 + 1e-8)
C11_Witness ==
    /\ fn.op = "advantages"
    /\ fn.done
    /\ fn.input = <<0, 2, 0 - 2>>
    /\ fn.output[1] = Zero
    /\ fn.output[2] = <<2 * EpsPerUnit, 2 * EpsPerUnit + 1>>
    /\ fn.output[3] = <<0 - 2 * EpsPerUnit, 2 * EpsPerUnit + 1>>

\* the trainer is as __init__ left it
Untouched ==
    /\ policy_optimizer = [r \in RolesOf(cfg) |-> FreshOpt]
    /\ critic_optimizer = FreshOpt
    /\ critic_grad = NoGrad
    /\ policy_grad = [a \in Agents |-> NoGrad]
    /\ ckpt = NoCkpt
    /\ io = "none"
    /\ pc = "idle"

\* C12: token mask. cal_token_mask returns an array of the shape of
\* action_tokens whose entry is 1 where the token differs from the
\* tokenizer's pad token id and 0 where it is the pad token, and it leaves the
\* trainer's state as it was.
C12_TokenMask ==
    (fn.op = "cal_token_mask" /\ fn.done) =>
        /\ DOMAIN fn.output = DOMAIN fn.input
        /\ \A p \in DOMAIN fn.input :
              /\ fn.output[p] \in {0, 1}
              /\ fn.output[p] = 1 <=> fn.input[p] # PadTokenId
        /\ Untouched

\* two samples of two agents, pad and other tokens mixed
C12_Witness ==
    /\ fn.op = "cal_token_mask"
    /\ fn.done
    /\ DOMAIN fn.input = (0 .. 1) \X (0 .. 1)
    /\ fn.input[<<0, 0>>] = PadTokenId
    /\ fn.input[<<0, 1>>] = PadTokenId + 2
    /\ fn.input[<<1, 0>>] = PadTokenId + 1
    /\ fn.input[<<1, 1>>] = PadTokenId
    /\ fn.output[<<0, 0>>] = 0
    /\ fn.output[<<0, 1>>] = 1
    /\ fn.output[<<1, 0>>] = 1
    /\ fn.output[<<1, 1>>] = 0

\* the chunks of a loop range(0, batch_size, cp_batch_size)
LoopChunks(u) ==
    IF u.cp_batch_size >= 1 THEN ChunksOf(0, u.cp_batch_size, u.batch_size) ELSE <<>>

\* C13: the critic step is unconditional and first. In every ppo_update call
\* of a sequence of calls: the critic gradients are reset before the first
\* chunk; until the critic loop has run over all its chunks the critic
\* optimizer is not stepped and no policy pass or policy optimizer step takes
\* place; the policy loop and the policy optimizer steps run only after the
\* one critic optimizer step; and a call that returns, through the warmup
\* gate, the KL gate or the full update, has stepped the critic optimizer
\* exactly once, on the gradient accumulated over all chunks.
C13_CriticStepFirst ==
    (upd # NoUpd /\ ret.kind \in {"none", "tuple"}) =>
        /\ (pc = "critic_loop" /\ upd.critic_chunks = <<>>) => critic_grad = NoGrad
        /\ pc = "critic_loop" =>
              /\ upd.critic_steps = 0
              /\ critic_optimizer = upd.critic_before
              /\ upd.policy_chunks = <<>>
              /\ upd.policy_zero_grads = 0
              /\ upd.policy_steps = <<>>
              /\ policy_optimizer = upd.policy_before
        /\ pc = "policy_loop" =>
              /\ upd.critic_steps = 1
              /\ upd.policy_steps = <<>>
        /\ pc # "critic_loop" =>
              /\ upd.critic_steps = 1
              /\ upd.critic_chunks = LoopChunks(upd)
              /\ io = "none" =>
                    /\ critic_optimizer = OptStep(upd.critic_before, critic_grad)
                    /\ upd.critic_chunks # <<>> =>
                          critic_optimizer.step = upd.critic_before.step + 1
        /\ ret.kind = "tuple" => ret.line \in {136, 169, 182}

\* a train call of four updates, the first rejected by the KL gate and the
\* second applied in full: the critic optimizer has stepped four times
C13_Witness ==
    /\ tr.result = "dict"
    /\ io = "none"
    /\ tr.update_time = 4
    /\ tr.returned[1].line = 169
    /\ tr.returned[2].line = 182
    /\ upd.critic_steps = 1
    /\ upd.critic_before.step = 3
    /\ critic_optimizer.step = 4

\* how many times the optimizer registered under role r had step() called in
\* the policy steps logged
StepCalls(log, r) == Cardinality({i \in 1 .. Len(log) : log[i].role = r})

\* C14: which policy optimizers step. In a call that passes both gates, under
\* rotation exactly one policy optimizer is stepped, once: the one registered
\* for the role of agents[agent_to_train], every other policy optimizer
\* keeping its state; with rotation off every registered policy optimizer is
\* stepped exactly once.
C14_PolicyOptimizerSteps ==
    (Called /\ ret.line = 182) =>
        /\ upd.agent_to_train # None =>
              LET r == cfg.role[upd.agent_to_train]
              IN /\ StepCalls(upd.policy_steps, r) = 1
                 /\ \A q \in DOMAIN policy_optimizer \ {r} :
                       /\ StepCalls(upd.policy_steps, q) = 0
                       /\ policy_optimizer[q] = upd.policy_before[q]
        /\ upd.agent_to_train = None =>
              \A r \in DOMAIN policy_optimizer : StepCalls(upd.policy_steps, r) = 1

\* the gradient does not exceed max_grad_norm
WithinMaxGradNorm(grad) == ~RGt(RAbs(grad.val), Whole(MaxGradNorm))

\* C15: gradient clipping follows the enable flag. With use_max_grad_norm
\* enabled the critic gradient and the gradient of every updated agent are
\* clipped to max_grad_norm before the optimizer step; with it disabled the
\* norm is only measured and the gradients reach the optimizer step as they
\* were accumulated.
C15_ClippingFollowsFlag ==
    Called =>
        /\ upd.critic_steps = 1 =>
              IF cfg.use_max_grad_norm
              THEN WithinMaxGradNorm(critic_grad)
              ELSE /\ ~critic_grad.clipped
                   /\ NormOf(critic_grad) = upd.critic_grad_norm
        /\ ret.line = 182 =>
              \A i \in 1 .. Len(upd.policy_steps) :
                  LET a == upd.policy_steps[i].agent
                  IN IF cfg.use_max_grad_norm
                     THEN WithinMaxGradNorm(policy_grad[a])
                     ELSE /\ ~policy_grad[a].clipped
                          /\ upd.agent_to_train # None =>
                                NormOf(policy_grad[a]) = ret.policy_grad_norm

\* the chunks ch run so far are non-empty and follow one another from 0 on,
\* inside the batch
Contiguous(ch, batch_size) ==
    \A i \in 1 .. Len(ch) :
        /\ ch[i][1] < ch[i][2]
        /\ ch[i][2] <= batch_size
        /\ ch[i][1] = (IF i = 1 THEN 0 ELSE ch[i - 1][2])

\* every index of the batch lies in exactly one chunk of ch, and chunks that
\* differ share no index
CoversExactly(ch, batch_size) ==
    /\ \A x \in 0 .. batch_size - 1 :
          Cardinality({i \in 1 .. Len(ch) : ch[i][1] <= x /\ x < ch[i][2]}) = 1
    /\ \A i, j \in 1 .. Len(ch) :
          i # j => (ch[i][2] <= ch[j][1] \/ ch[j][2] <= ch[i][1])

\* C16: the chunk loops cover the batch exactly. For gradient_cp_steps >= 1,
\* also above batch_size, the chunks of the critic loop and of the policy
\* loop are non-empty and contiguous and each loop makes at most batch_size
\* passes; once a loop is over, every index 0 .. batch_size-1 lies in exactly
\* one of its chunks, the chunks are pairwise disjoint, and the weights
\* (end - start) / batch_size it used add up to exactly 1.
C16_ChunksCoverBatch ==
    (Called /\ cfg.gradient_cp_steps >= 1) =>
        /\ upd.cp_batch_size >= 1
        /\ Contiguous(upd.critic_chunks, upd.batch_size)
        /\ Contiguous(upd.policy_chunks, upd.batch_size)
        /\ Len(upd.critic_chunks) <= upd.batch_size
        /\ Len(upd.policy_chunks) <= upd.batch_size
        /\ CriticLoopDone =>
              /\ CoversExactly(upd.critic_chunks, upd.batch_size)
              /\ upd.critic_weight = Whole(1)
        /\ PolicyLoopDone =>
              /\ CoversExactly(upd.policy_chunks, upd.batch_size)
              /\ upd.policy_weight = Whole(1)
        /\ (Ended /\ upd.global_steps >= cfg.warmup_steps) => PolicyLoopDone
        /\ Ended => CriticLoopDone

\* two samples under gradient_cp_steps = 3: the chunk size is floored to 1,
\* both loops ran over two chunks of one sample with weight 1/2 each
C16_Witness ==
    /\ PolicyLoopDone
    /\ cfg.gradient_cp_steps = 3
    /\ upd.batch_size = 2
    /\ upd.warned
    /\ upd.critic_chunks = <<<<0, 1>>, <<1, 2>>>>
    /\ upd.policy_chunks = <<<<0, 1>>, <<1, 2>>>>
    /\ upd.critic_weight = Whole(1)
    /\ upd.policy_weight = Whole(1)

\* the warmup gate (line 135) closed the update that returned r
InWarmupReturn(r) == r.line = 136

\* C17: one train call uses one schedule point. train never assigns its
\* global_steps, and every ppo_update it invokes receives that value: each
\* update of the call selects AgentToTrain of train's global_steps, and the
\* updates that returned all stopped at the warmup gate when train's
\* global_steps is below warmup_steps and all passed it otherwise, whatever
\* ppo_epoch and the number of minibatches are.
C17_OneSchedulePoint ==
    /\ [](tr # NoTrain =>
            /\ Called =>
                  /\ upd.global_steps = tr.global_steps
                  /\ upd.agent_to_train =
                        AgentToTrain(tr.global_steps, cfg.agent_iteration_interval,
                                     cfg.num_agent)
            /\ \A i \in 1 .. Len(tr.returned) :
                  InWarmupReturn(tr.returned[i]) <=>
                      tr.global_steps < cfg.warmup_steps
            /\ \A i, j \in 1 .. Len(tr.returned) :
                  InWarmupReturn(tr.returned[i]) <=> InWarmupReturn(tr.returned[j]))
    /\ [][tr # NoTrain => tr'.global_steps = tr.global_steps]_vars

\* train(buffer, 2) with ppo_epoch = 2 over two minibatches, the agents
\* taking turns every step: four updates, all past the warmup gate, the
\* last one (like the others) for agent 1
C17_Witness ==
    /\ tr.result = "dict"
    /\ cfg.ppo_epoch = 2
    /\ cfg.agent_iteration_interval = 1
    /\ tr.global_steps = 2
    /\ tr.update_time = 4
    /\ Len(tr.returned) = 4
    /\ ~InWarmupReturn(tr.returned[4])
    /\ upd.global_steps = 2
    /\ upd.agent_to_train = 1

\* the keys of train_info (lines 191-198)
TrainInfoKeys ==
    {"value_loss", "value_grad_norm", "policy_loss", "policy_grad_norm",
     "entropy", "approx_kl"}

\* a train call is over and no ppo_update was invoked in it
TrainEndedWithoutUpdate ==
    /\ tr # NoTrain
    /\ ~tr.active
    /\ tr.update_time = 0
    /\ ~Called

\* C18: train with no updates. For every ppo_epoch >= 0 and every buffer,
\* ppo_epoch = 0 and a buffer whose sample() yields no minibatch included, a
\* train call that made no update has not raised and has returned the
\* diagnostics mapping with all six keys.
C18_TrainWithoutUpdates ==
    TrainEndedWithoutUpdate =>
        /\ tr.result = "dict"
        /\ DOMAIN tr.train_info = TrainInfoKeys

====
